---- MODULE Spec2Model ----
(***************************************************************************)
(* Nutrition AI Backend (src/main.py): the two POST handlers,              *)
(* recommendations and recipes_by_ingredient, as a state machine.          *)
(*                                                                         *)
(* A Python str is a sequence of one-character strings.  A JSON value (and *)
(* every Python value the handlers hold) is a record                       *)
(*   [t, n, s, a, k]                                                       *)
(* whose tag t is "null", "bool", "int", "str", "list" or "obj"; n is the  *)
(* number (bool: 0/1), s the characters of a str, a the items of a list or *)
(* the values of a dict in insertion order, k the keys of a dict.          *)
(***************************************************************************)
EXTENDS Integers, Sequences, FiniteSets, TLC

\* ------------------------------------------------------------ values

JNull == [t |-> "null", n |-> 0, s |-> <<>>, a |-> <<>>, k |-> <<>>]
JBool(b) == [t |-> "bool", n |-> IF b THEN 1 ELSE 0, s |-> <<>>, a |-> <<>>, k |-> <<>>]
JInt(n) == [t |-> "int", n |-> n, s |-> <<>>, a |-> <<>>, k |-> <<>>]
JStr(s) == [t |-> "str", n |-> 0, s |-> s, a |-> <<>>, k |-> <<>>]
JList(a) == [t |-> "list", n |-> 0, s |-> <<>>, a |-> a, k |-> <<>>]
JObj(k, a) == [t |-> "obj", n |-> 0, s |-> <<>>, a |-> a, k |-> k]

Min(a, b) == IF a <= b THEN a ELSE b

\* dict: key lookup, and d[key] = val (a key already present keeps its place)
HasKey(d, key) == \E i \in 1..Len(d.k) : d.k[i] = key
Get(d, key) == d.a[CHOOSE i \in 1..Len(d.k) : d.k[i] = key]
DictSet(d, key, val) ==
    IF HasKey(d, key)
    THEN JObj(d.k, [i \in 1..Len(d.a) |-> IF d.k[i] = key THEN val ELSE d.a[i]])
    ELSE JObj(Append(d.k, key), Append(d.a, val))

\* ------------------------------------------------------------ str(int)

Digits == <<"0", "1", "2", "3", "4", "5", "6", "7", "8", "9">>
IsDigit(c) == \E d \in 1..10 : Digits[d] = c
DigitVal(c) == (CHOOSE d \in 1..10 : Digits[d] = c) - 1

RECURSIVE StrNat(_)
StrNat(n) == IF n < 10 THEN <<Digits[n + 1]>>
             ELSE Append(StrNat(n \div 10), Digits[(n % 10) + 1])

\* str(n) of a Python int
StrInt(n) == IF n < 0 THEN <<"-">> \o StrNat(-n) ELSE StrNat(n)

NoneText == <<"N", "o", "n", "e">>

\* variant: None is rendered as nothing
FormatBlank(v) == CASE v.t = "null" -> <<>>
                    [] v.t = "int" -> StrInt(v.n)
                    [] OTHER -> v.s
\* what an f-string field {v} renders: str(v) for None, an int, a str
Format(v) == CASE v.t = "null" -> NoneText
               [] v.t = "int" -> StrInt(v.n)
               [] OTHER -> v.s

\* ------------------------------------------------------------ json.loads
\* The grammar covered: objects, arrays, strings without escapes, integers,
\* true/false/null, and whitespace (space, newline) between tokens.

IsWs(c) == c \in {" ", "\n"}

\* the first position from i on that holds no whitespace (Len(s) + 1: none)
SkipWs(s, i) ==
    CHOOSE j \in i..(Len(s) + 1) :
        /\ \A m \in i..(j - 1) : IsWs(s[m])
        /\ (j = Len(s) + 1 \/ ~IsWs(s[j]))

Fail(i) == [ok |-> FALSE, val |-> JNull, next |-> i]
Ok(v, i) == [ok |-> TRUE, val |-> v, next |-> i]

\* s[i] is the opening quote
ScanString(s, i) ==
    IF \E j \in (i + 1)..Len(s) : s[j] = "\""
    THEN LET j == CHOOSE j \in (i + 1)..Len(s) :
                      s[j] = "\"" /\ \A m \in (i + 1)..(j - 1) : s[m] # "\""
         IN IF \E m \in (i + 1)..(j - 1) : s[m] = "\n"
            THEN Fail(i)
            ELSE Ok(JStr(SubSeq(s, i + 1, j - 1)), j + 1)
    ELSE Fail(i)

RECURSIVE NatOf(_)
NatOf(ds) == IF ds = <<>> THEN 0
             ELSE 10 * NatOf(SubSeq(ds, 1, Len(ds) - 1)) + DigitVal(ds[Len(ds)])

\* -?(0|[1-9][0-9]*)
ScanInt(s, i) ==
    LET neg == s[i] = "-"
        b == IF neg THEN i + 1 ELSE i
    IN IF b > Len(s) \/ ~IsDigit(s[b]) THEN Fail(i)
       ELSE LET e == IF s[b] = "0" THEN b + 1
                     ELSE CHOOSE j \in (b + 1)..(Len(s) + 1) :
                              /\ \A m \in b..(j - 1) : IsDigit(s[m])
                              /\ (j = Len(s) + 1 \/ ~IsDigit(s[j]))
                v == NatOf(SubSeq(s, b, e - 1))
            IN Ok(JInt(IF neg THEN -v ELSE v), e)

StartsWith(s, i, w) ==
    /\ i + Len(w) - 1 <= Len(s)
    /\ \A m \in 1..Len(w) : s[i + m - 1] = w[m]

RECURSIVE ParseValue(_, _), ParseElems(_, _, _), ParseMembers(_, _, _)

\* s[i] starts the next element; acc is the list so far
ParseElems(s, i, acc) ==
    LET v == ParseValue(s, i)
        j == SkipWs(s, v.next)
    IN IF ~v.ok \/ j > Len(s) THEN Fail(i)
       ELSE IF s[j] = "]" THEN Ok(JList(Append(acc, v.val)), j + 1)
       ELSE IF s[j] = "," THEN ParseElems(s, SkipWs(s, j + 1), Append(acc, v.val))
       ELSE Fail(j)

\* s[i] starts the next "key": value pair; acc is the dict so far
ParseMembers(s, i, acc) ==
    IF i > Len(s) \/ s[i] # "\"" THEN Fail(i)
    ELSE LET key == ScanString(s, i)
             c == SkipWs(s, key.next)
         IN IF ~key.ok \/ c > Len(s) \/ s[c] # ":" THEN Fail(i)
            ELSE LET v == ParseValue(s, SkipWs(s, c + 1))
                     j == SkipWs(s, v.next)
                     d == DictSet(acc, key.val.s, v.val)
                 IN IF ~v.ok \/ j > Len(s) THEN Fail(i)
                    ELSE IF s[j] = "}" THEN Ok(d, j + 1)
                    ELSE IF s[j] = "," THEN ParseMembers(s, SkipWs(s, j + 1), d)
                    ELSE Fail(j)

ParseValue(s, i) ==
    IF i > Len(s) THEN Fail(i)
    ELSE IF s[i] = "{" THEN
        LET j == SkipWs(s, i + 1)
        IN IF j <= Len(s) /\ s[j] = "}" THEN Ok(JObj(<<>>, <<>>), j + 1)
           ELSE ParseMembers(s, j, JObj(<<>>, <<>>))
    ELSE IF s[i] = "[" THEN
        LET j == SkipWs(s, i + 1)
        IN IF j <= Len(s) /\ s[j] = "]" THEN Ok(JList(<<>>), j + 1)
           ELSE ParseElems(s, j, <<>>)
    ELSE IF s[i] = "\"" THEN ScanString(s, i)
    ELSE IF s[i] = "-" \/ IsDigit(s[i]) THEN ScanInt(s, i)
    ELSE IF StartsWith(s, i, <<"t", "r", "u", "e">>) THEN Ok(JBool(TRUE), i + 4)
    ELSE IF StartsWith(s, i, <<"f", "a", "l", "s", "e">>) THEN Ok(JBool(FALSE), i + 5)
    ELSE IF StartsWith(s, i, <<"n", "u", "l", "l">>) THEN Ok(JNull, i + 4)
    ELSE Fail(i)

\* json.loads(text): [ok |-> FALSE] is json.JSONDecodeError
loads(s) ==
    LET v == ParseValue(s, SkipWs(s, 1))
    IN IF v.ok /\ SkipWs(s, v.next) = Len(s) + 1
       THEN [ok |-> TRUE, val |-> v.val]
       ELSE [ok |-> FALSE, val |-> JNull]

\* ------------------------------------------------------------ the model's reply text
\* The completion boundary writes its JSON compactly.

RECURSIVE Join(_, _)
Join(parts, sep) == IF parts = <<>> THEN <<>>
                    ELSE IF Len(parts) = 1 THEN parts[1]
                    ELSE parts[1] \o sep \o Join(Tail(parts), sep)

RECURSIVE dumps(_)
dumps(v) ==
    CASE v.t = "null" -> <<"n", "u", "l", "l">>
      [] v.t = "bool" -> IF v.n = 1 THEN <<"t", "r", "u", "e">>
                         ELSE <<"f", "a", "l", "s", "e">>
      [] v.t = "int" -> StrInt(v.n)
      [] v.t = "str" -> <<"\"">> \o v.s \o <<"\"">>
      [] v.t = "list" ->
            <<"[">> \o Join([i \in 1..Len(v.a) |-> dumps(v.a[i])], <<",">>) \o <<"]">>
      [] OTHER ->
            <<"{">> \o Join([i \in 1..Len(v.a) |->
                               <<"\"">> \o v.k[i] \o <<"\"", ":">> \o dumps(v.a[i])],
                            <<",">>) \o <<"}">>

\* ------------------------------------------------------------ names and texts

K_breakfast == <<"b", "r", "e", "a", "k", "f", "a", "s", "t">>
K_lunch == <<"l", "u", "n", "c", "h">>
K_dinner == <<"d", "i", "n", "n", "e", "r">>
K_totalCalories == <<"t", "o", "t", "a", "l", "C", "a", "l", "o", "r", "i", "e", "s">>
K_nutrients == <<"n", "u", "t", "r", "i", "e", "n", "t", "s">>
K_protein_g == <<"p", "r", "o", "t", "e", "i", "n", "_", "g">>
K_carbs_g == <<"c", "a", "r", "b", "s", "_", "g">>
K_fiber_g == <<"f", "i", "b", "e", "r", "_", "g">>
K_ingredient == <<"i", "n", "g", "r", "e", "d", "i", "e", "n", "t">>
K_recipes == <<"r", "e", "c", "i", "p", "e", "s">>
K_name == <<"n", "a", "m", "e">>
K_ingredients == <<"i", "n", "g", "r", "e", "d", "i", "e", "n", "t", "s">>
K_steps == <<"s", "t", "e", "p", "s">>
K_calories == <<"c", "a", "l", "o", "r", "i", "e", "s">>

S_oatmeal == <<"o", "a", "t", "m", "e", "a", "l">>
S_salad == <<"s", "a", "l", "a", "d">>
S_soup == <<"s", "o", "u", "p">>
S_chickpeas == <<"c", "h", "i", "c", "k", "p", "e", "a", "s">>
S_tofu == <<"t", "o", "f", "u">>
S_hummus == <<"h", "u", "m", "m", "u", "s">>
S_mash == <<"m", "a", "s", "h">>
S_blend == <<"b", "l", "e", "n", "d">>
S_lose_weight == <<"l", "o", "s", "e", " ", "w", "e", "i", "g", "h", "t">>
S_vegan == <<"v", "e", "g", "a", "n">>
S_peanuts == <<"p", "e", "a", "n", "u", "t", "s">>
S_female == <<"f", "e", "m", "a", "l", "e">>
S_abc == <<"a", "b", "c">>
S_note == <<"n", "o", "t", "e">>
S_sk_test == <<"s", "k", "-", "t", "e", "s", "t">>
S_True == <<"T", "r", "u", "e">>
S_False == <<"F", "a", "l", "s", "e">>

\* ------------------------------------------------------------ response models (pydantic)
\* A field type: int with Field(ge, le), str, List[elem], or a BaseModel with
\* its fields in declared order.

IntField(ge, le) == [kind |-> "int", ge |-> ge, le |-> le, names |-> <<>>, types |-> <<>>]
StrField == [kind |-> "str", ge |-> 0, le |-> 0, names |-> <<>>, types |-> <<>>]
ListOf(elem) == [kind |-> "list", ge |-> 0, le |-> 0, names |-> <<>>, types |-> <<elem>>]
BaseModel(names, types) == [kind |-> "model", ge |-> 0, le |-> 0, names |-> names, types |-> types]

Nutrients ==
    BaseModel(<<K_protein_g, K_carbs_g, K_fiber_g>>,
              <<IntField(0, 500), IntField(0, 800), IntField(0, 200)>>)

RecommendationResponse ==
    BaseModel(<<K_breakfast, K_lunch, K_dinner, K_totalCalories, K_nutrients>>,
              <<StrField, StrField, StrField, IntField(0, 6000), Nutrients>>)

RecipeItem ==
    BaseModel(<<K_name, K_ingredients, K_steps, K_calories, K_nutrients>>,
              <<StrField, ListOf(StrField), ListOf(StrField), IntField(0, 3000), Nutrients>>)

IngredientRecipeResponse ==
    BaseModel(<<K_ingredient, K_recipes>>, <<StrField, ListOf(RecipeItem)>>)

\* the text of an integer, which an int field takes for that integer
IsIntText(s) ==
    LET b == IF s # <<>> /\ s[1] = "-" THEN 2 ELSE 1
    IN b <= Len(s) /\ \A m \in b..Len(s) : IsDigit(s[m])
IntOfText(s) == IF s[1] = "-" THEN -NatOf(Tail(s)) ELSE NatOf(s)

\* what an int field accepts: an int, a bool (True is 1), the text of an integer
IntLike(v) == v.t \in {"int", "bool"} \/ (v.t = "str" /\ IsIntText(v.s))
AsInt(v) == IF v.t = "str" THEN IntOfText(v.s) ELSE v.n

\* variant: the upper bound is not checked
InRangeNoUpper(n, ge, le) == ge <= n
\* Field(ge=, le=): both bounds inclusive
InRange(n, ge, le) == ge <= n /\ n <= le

\* str(v) of an int or a bool
StrOf(v) == IF v.t = "bool" THEN (IF v.n = 1 THEN S_True ELSE S_False) ELSE StrInt(v.n)

\* variant: a list must hold exactly three items
ListOkThree(v) == v.t = "list" /\ Len(v.a) = 3
\* List[...]: any list, of any length
ListOk(v) == v.t = "list"

Valid(v) == [ok |-> TRUE, val |-> v]
Invalid == [ok |-> FALSE, val |-> JNull]

\* dict(value) of a list of [key, value] pairs with str keys
IsPairs(v) ==
    /\ v.t = "list"
    /\ \A i \in 1..Len(v.a) : v.a[i].t = "list" /\ Len(v.a[i].a) = 2 /\ v.a[i].a[1].t = "str"
RECURSIVE DictOf(_, _)
DictOf(acc, items) ==
    IF items = <<>> THEN acc
    ELSE DictOf(DictSet(acc, items[1].a[1].s, items[1].a[2]), Tail(items))

\* Validation of value v against a field type.  The two major versions of
\* pydantic differ on values of another type than the declared one: version 1
\* (v1) turns a number given for a str into its text and a list of pairs given
\* for a model into a dict, version 2 rejects both.
RECURSIVE validate(_, _, _)
validate(type, v, v1) ==
    CASE type.kind = "int" ->
            IF IntLike(v) /\ InRange(AsInt(v), type.ge, type.le)
            THEN Valid(JInt(AsInt(v))) ELSE Invalid
      [] type.kind = "str" ->
            IF v.t = "str" THEN Valid(v)
            ELSE IF v1 /\ v.t \in {"int", "bool"} THEN Valid(JStr(StrOf(v)))
            ELSE Invalid
      [] type.kind = "list" ->
            IF ListOk(v) /\ \A i \in 1..Len(v.a) : validate(type.types[1], v.a[i], v1).ok
            THEN Valid(JList([i \in 1..Len(v.a) |-> validate(type.types[1], v.a[i], v1).val]))
            ELSE Invalid
      [] OTHER ->
            LET d == IF v1 /\ IsPairs(v) THEN DictOf(JObj(<<>>, <<>>), v.a) ELSE v
            IN IF /\ d.t = "obj"
                  /\ \A i \in 1..Len(type.names) :
                        /\ HasKey(d, type.names[i])
                        /\ validate(type.types[i], Get(d, type.names[i]), v1).ok
               THEN Valid(JObj(type.names,
                               [i \in 1..Len(type.names) |->
                                   validate(type.types[i], Get(d, type.names[i]), v1).val]))
               ELSE Invalid

\* Model(**data): [ok, exc, val]; ** of a value that is no dict is a TypeError
Construct(model, d, v1) ==
    IF d.t # "obj" THEN [ok |-> FALSE, exc |-> "TypeError", val |-> JNull]
    ELSE LET m == validate(model, d, v1)
         IN IF m.ok THEN [ok |-> TRUE, exc |-> "", val |-> m.val]
            ELSE [ok |-> FALSE, exc |-> "ValidationError", val |-> JNull]

\* ------------------------------------------------------------ request models

\* a field the request body does not supply
Missing == [t |-> "missing", n |-> 0, s |-> <<>>, a |-> <<>>, k |-> <<>>]

\* a field's declared default stands in for a field not supplied
Default(v, d) == IF v.t = "missing" THEN d ELSE v

RecommendationRequest(body) ==
    [goal |-> body.goal, dietType |-> body.dietType, allergy |-> body.allergy,
     age |-> Default(body.age, JNull), gender |-> Default(body.gender, JNull),
     height |-> Default(body.height, JNull), weight |-> Default(body.weight, JNull)]

IngredientRecipeRequest(body) ==
    [ingredient |-> body.ingredient,
     goal |-> Default(body.goal, JNull), dietType |-> Default(body.dietType, JNull),
     allergy |-> Default(body.allergy, JNull), servings |-> Default(body.servings, JInt(1))]

\* ------------------------------------------------------------ prompts
\* An f-string is the sequence of its pieces: literal text, then the field
\* rendered after it (the last piece renders nothing).

Piece(lit, val) == [lit |-> lit, val |-> val]

\* (the source's approximation sign is written ~ here)
system_msg_recommendations ==
    "You are a nutrition assistant. Respect dietary preferences and avoid allergens. Provide practical, balanced meals. Do not provide medical diagnosis. Ensure nutrient values are realistic and consistent with calories (protein ~ 4 kcal/g, carbs ~ 4 kcal/g, fiber ~ 2 kcal/g)."

user_msg_recommendations(req) ==
    << Piece("\nCreate a 1-day meal plan.\n\nUser:\n- goal: ", Format(req.goal)),
       Piece("\n- dietType: ", Format(req.dietType)),
       Piece("\n- allergy: ", Format(req.allergy)),
       Piece("\n- age: ", Format(req.age)),
       Piece("\n- gender: ", Format(req.gender)),
       Piece("\n- height: ", Format(req.height)),
       Piece("\n- weight: ", Format(req.weight)),
       Piece("\n\nReturn JSON EXACTLY in this format (no extra text, no markdown):\n\n{\n\"breakfast\": \"...\",\n\"lunch\": \"...\",\n\"dinner\": \"...\",\n\"totalCalories\": 0,\n\"nutrients\": {\n    \"protein_g\": 0,\n    \"carbs_g\": 0,\n    \"fiber_g\": 0\n}\n}\n", <<>>) >>

system_msg_recipes ==
    "You are a helpful nutrition + recipe assistant. Respect dietary preferences and avoid allergens. Provide practical recipes using the given ingredient. Nutrients should be realistic and consistent with calories (protein ~ 4 kcal/g, carbs ~ 4 kcal/g, fiber ~ 2 kcal/g)."

user_msg_recipes(req) ==
    << Piece("\nGenerate 3 recipe ideas that include this ingredient: ", Format(req.ingredient)),
       Piece("\nConstraints:\n- goal: ", Format(req.goal)),
       Piece("\n- dietType: ", Format(req.dietType)),
       Piece("\n- allergy: ", Format(req.allergy)),
       Piece("\n- servings: ", Format(req.servings)),
       Piece("\n\nReturn JSON ONLY in this exact format (no extra text, no markdown):\n\n{\n\"ingredient\": \"", Format(req.ingredient)),
       Piece("\",\n\"recipes\": [\n    {\n    \"name\": \"...\",\n    \"ingredients\": [\"...\", \"...\"],\n    \"steps\": [\"...\", \"...\"],\n    \"calories\": 0,\n    \"nutrients\": {\n        \"protein_g\": 0,\n        \"carbs_g\": 0,\n        \"fiber_g\": 0\n    }\n    }\n]\n}\n", <<>>) >>

\* ------------------------------------------------------------ the handlers' steps

Endpoints == {"recommendations", "recipes_by_ingredient"}

Bind(ep, body) == IF ep = "recommendations" THEN RecommendationRequest(body)
                  ELSE IngredientRecipeRequest(body)

system_msg(ep) == IF ep = "recommendations" THEN system_msg_recommendations
                  ELSE system_msg_recipes

user_msg_of(ep, rq) == IF ep = "recommendations" THEN user_msg_recommendations(rq)
                       ELSE user_msg_recipes(rq)

response_model(ep) == IF ep = "recommendations" THEN RecommendationResponse
                      ELSE IngredientRecipeResponse

\* variant: only None counts as no credential
IsNone(v) == v.t = "null"
\* `not api_key`: None and the empty string
Falsy(v) == v.t = "null" \/ (v.t = "str" /\ v.s = <<>>)

NoBody == JNull
NoDetail == [msg |-> "", raw |-> <<>>]
NoResult == [status |-> 0, body |-> NoBody, detail |-> NoDetail]

\* raise HTTPException(status_code=..., detail=msg + raw)
HTTPException(status_code, msg, rawtext) ==
    [status |-> status_code, body |-> NoBody, detail |-> [msg |-> msg, raw |-> rawtext]]

\* variant: totalCalories is computed again from the nutrients
Response200Rederived(model) ==
    [status |-> 200,
     body |-> IF HasKey(model, K_totalCalories)
              THEN DictSet(model, K_totalCalories,
                           JInt(4 * Get(Get(model, K_nutrients), K_protein_g).n
                                + 4 * Get(Get(model, K_nutrients), K_carbs_g).n
                                + 2 * Get(Get(model, K_nutrients), K_fiber_g).n))
              ELSE model,
     detail |-> NoDetail]
\* variant: the ingredient of the response is emptied
Response200Blank(model) ==
    [status |-> 200,
     body |-> IF HasKey(model, K_ingredient) THEN DictSet(model, K_ingredient, JStr(<<>>))
              ELSE model,
     detail |-> NoDetail]
\* a handler's return value, sent as the response body
Response200(model) == [status |-> 200, body |-> model, detail |-> NoDetail]

\* variant: the whole text is quoted
ExcerptAll(t) == t
\* text[:300]
Excerpt(t) == SubSeq(t, 1, Min(300, Len(t)))

\* for item in r.output: if item.type == "output_text": text += item.text
RECURSIVE AppendAllSegments(_, _)
\* variant: every segment is appended, whatever its type
AppendAllSegments(acc, output) ==
    IF output = <<>> THEN acc
    ELSE AppendAllSegments(acc \o output[1].text, Tail(output))

RECURSIVE AppendOutputText(_, _)
AppendOutputText(acc, output) ==
    IF output = <<>> THEN acc
    ELSE AppendOutputText(IF output[1].type = "output_text" THEN acc \o output[1].text ELSE acc,
                          Tail(output))

\* The reply envelope r: [has_output_text, output_text, has_output, output].
\* [ok, exc, text]: the text the handler holds after lines 124-129.
ExtractText(r) ==
    IF r.has_output_text /\ r.output_text # <<>>
    THEN [ok |-> TRUE, exc |-> "", text |-> r.output_text]
    ELSE IF ~r.has_output
    THEN [ok |-> FALSE, exc |-> "AttributeError", text |-> <<>>]
    ELSE [ok |-> TRUE, exc |-> "", text |-> AppendOutputText(<<>>, r.output)]

\* variant: the call is made a second time
create_twice(n) == n + 2
\* client.responses.create(...) is called once
create_calls(n) == n + 1

\* variant: text is one module-level variable
SharedTextCell(r) == 1
\* text is a local of the invocation: one per request
TextCell(r) == r

\* ------------------------------------------------------------ inputs

MaxRecipes == 4
MaxSegments == 3
NReq == 2

Reqs == 1..NReq

RecommendationBodies ==
    { [goal |-> JStr(S_lose_weight), dietType |-> JStr(S_vegan), allergy |-> JStr(S_peanuts),
       age |-> Missing, gender |-> Missing, height |-> Missing, weight |-> Missing],
      [goal |-> JStr(S_lose_weight), dietType |-> JStr(S_vegan), allergy |-> JStr(S_peanuts),
       age |-> JInt(30), gender |-> JStr(S_female), height |-> JInt(165), weight |-> JInt(60)],
      [goal |-> JStr(S_abc), dietType |-> JStr(S_vegan), allergy |-> JStr(<<>>),
       age |-> JNull, gender |-> Missing, height |-> JInt(0), weight |-> Missing] }

IngredientBodies ==
    { [ingredient |-> JStr(S_chickpeas), goal |-> Missing, dietType |-> Missing,
       allergy |-> Missing, servings |-> Missing],
      [ingredient |-> JStr(S_tofu), goal |-> JStr(S_lose_weight), dietType |-> JStr(S_vegan),
       allergy |-> JStr(S_peanuts), servings |-> JInt(2)],
      [ingredient |-> JStr(S_chickpeas), goal |-> JNull, dietType |-> Missing,
       allergy |-> Missing, servings |-> JNull] }

Bodies(ep) == IF ep = "recommendations" THEN RecommendationBodies ELSE IngredientBodies

\* the dict d without key
Without(d, key) ==
    LET keep == {i \in 1..Len(d.k) : d.k[i] # key}
        ix(n) == CHOOSE i \in keep : Cardinality({j \in keep : j < i}) = n - 1
    IN JObj([n \in 1..Cardinality(keep) |-> d.k[ix(n)]],
            [n \in 1..Cardinality(keep) |-> d.a[ix(n)]])

NutrientsValue ==
    JObj(<<K_protein_g, K_carbs_g, K_fiber_g>>, <<JInt(50), JInt(180), JInt(30)>>)

RecommendationValue ==
    JObj(<<K_breakfast, K_lunch, K_dinner, K_totalCalories, K_nutrients>>,
         <<JStr(S_oatmeal), JStr(S_salad), JStr(S_soup), JInt(1500), NutrientsValue>>)

RecommendationValues ==
    {RecommendationValue}
    \cup {DictSet(RecommendationValue, K_totalCalories, v) :
             v \in {JInt(0), JInt(6000), JInt(6001), JInt(7000), JInt(-1),
                    JStr(<<"1", "5", "0", "0">>), JStr(<<"7", "0", "0", "0">>), JStr(S_abc),
                    JBool(TRUE), JNull, JList(<<>>)}}
    \cup {Without(RecommendationValue, key) : key \in {K_dinner, K_totalCalories, K_nutrients}}
    \cup {DictSet(RecommendationValue, K_nutrients, v) :
             v \in {DictSet(NutrientsValue, K_protein_g, JInt(501)),
                    DictSet(NutrientsValue, K_carbs_g, JInt(-1)),
                    DictSet(NutrientsValue, K_fiber_g, JInt(200)),
                    DictSet(NutrientsValue, K_fiber_g, JStr(<<"2", "0">>)),
                    Without(NutrientsValue, K_fiber_g),
                    JList([i \in 1..3 |-> JList(<<JStr(NutrientsValue.k[i]),
                                                  NutrientsValue.a[i]>>)]),
                    JList(<<>>), JNull, JStr(S_abc)}}
    \cup {DictSet(RecommendationValue, K_breakfast, v) : v \in {JInt(5), JNull, JList(<<>>)}}
    \cup {DictSet(RecommendationValue, S_note, JStr(S_abc))}
    \cup {JObj(<<K_totalCalories>> \o RecommendationValue.k,
               <<JInt(7000)>> \o RecommendationValue.a)}
    \cup {JList(<<RecommendationValue>>), JStr(S_abc), JInt(7), JNull, JObj(<<>>, <<>>)}

RecipeValue(i) ==
    JObj(<<K_name, K_ingredients, K_steps, K_calories, K_nutrients>>,
         <<JStr(S_hummus), JList(<<JStr(S_chickpeas), JStr(S_tofu)>>),
           JList(<<JStr(S_mash), JStr(S_blend)>>), JInt(100 * i), NutrientsValue>>)

IngredientValue(ingredient, n) ==
    JObj(<<K_ingredient, K_recipes>>,
         <<JStr(ingredient), JList([i \in 1..n |-> RecipeValue(i)])>>)

IngredientValues ==
    {IngredientValue(i, n) : i \in {S_chickpeas, S_tofu}, n \in 0..MaxRecipes}
    \cup {JObj(<<K_ingredient, K_recipes>>, <<JStr(S_chickpeas), JList(<<v>>)>>) :
             v \in {DictSet(RecipeValue(1), K_calories, JInt(3001)),
                    DictSet(RecipeValue(1), K_calories, JInt(3000)),
                    DictSet(RecipeValue(1), K_calories, JStr(<<"2", "5", "0">>)),
                    Without(RecipeValue(1), K_steps),
                    DictSet(RecipeValue(1), K_ingredients, JList(<<JStr(S_tofu), JInt(2)>>)),
                    DictSet(RecipeValue(1), K_steps, JStr(S_mash)),
                    DictSet(RecipeValue(1), K_nutrients,
                            DictSet(NutrientsValue, K_carbs_g, JInt(801))),
                    JStr(S_hummus), JNull}}
    \cup {DictSet(IngredientValue(S_chickpeas, 1), K_recipes, v) :
             v \in {JNull, JStr(S_abc), RecipeValue(1)}}
    \cup {DictSet(IngredientValue(S_tofu, 1), K_ingredient, v) : v \in {JInt(7), JNull}}
    \cup {Without(IngredientValue(S_chickpeas, 1), K_recipes),
          Without(IngredientValue(S_chickpeas, 1), K_ingredient),
          JList(<<>>)}

\* text that is no JSON: n characters of prose
Prose(n) == [i \in 1..n |-> <<"S", "o", "r", "r", "y", ",", " ">>[(i % 7) + 1]]

NotJson(t) ==
    { <<>>, Prose(5), Prose(299), Prose(300), Prose(301), Prose(310),
      SubSeq(t, 1, Len(t) - 1), t \o <<"x">>, t \o t,
      t \o <<",">> \o Prose(300) }

\* the same value written with whitespace
Spaced(t) == <<" ", "\n">> \o t \o <<"\n">>

RecommendationText == dumps(RecommendationValue)
IngredientText == dumps(IngredientValue(S_chickpeas, 2))

Texts(ep) ==
    IF ep = "recommendations"
    THEN {dumps(v) : v \in RecommendationValues} \cup NotJson(RecommendationText)
         \cup {Spaced(RecommendationText), IngredientText}
    ELSE {dumps(v) : v \in IngredientValues} \cup NotJson(IngredientText)
         \cup {Spaced(IngredientText), RecommendationText}

Segment(type, t) == [type |-> type, text |-> t]

\* the reply in two halves, and a segment that is no output text
Segments(t) ==
    { Segment("output_text", SubSeq(t, 1, 40)),
      Segment("output_text", SubSeq(t, 41, Len(t))),
      Segment("reasoning", S_note) }

SegmentSeqs(t, n) == UNION {[1..m -> Segments(t)] : m \in 0..n}

Envelope(has_output_text, output_text, has_output, output) ==
    [has_output_text |-> has_output_text, output_text |-> output_text,
     has_output |-> has_output, output |-> output]

NoEnvelope == Envelope(FALSE, <<>>, FALSE, <<>>)

Envelopes(ep) ==
    LET t == IF ep = "recommendations" THEN RecommendationText ELSE IngredientText
    IN {Envelope(TRUE, p, TRUE, <<>>) : p \in Texts(ep) \ {<<>>}}
       \cup {Envelope(h, <<>>, TRUE, q) : h \in BOOLEAN, q \in SegmentSeqs(t, MaxSegments)}
       \cup {Envelope(TRUE, t, o, <<Segment("output_text", S_abc)>>) : o \in BOOLEAN}
       \cup {NoEnvelope}

\* what the call to the completion boundary comes to: an exception or an envelope
Raised(msg) == [raised |-> TRUE, msg |-> msg, r |-> NoEnvelope]
Returned(r) == [raised |-> FALSE, msg |-> "", r |-> r]
NoReply == [raised |-> FALSE, msg |-> "none", r |-> NoEnvelope]

Outcomes(ep) == {Raised("APIConnectionError")} \cup {Returned(r) : r \in Envelopes(ep)}

\* the inputs of the runs with several requests in flight
SmallBodies(ep) ==
    IF ep = "recommendations"
    THEN {b \in RecommendationBodies : b.age.t = "missing"}
    ELSE {b \in IngredientBodies : b.goal.t # "str"}

SmallOutcomes(ep) ==
    LET t == IF ep = "recommendations" THEN RecommendationText ELSE IngredientText
    IN { Raised("APIConnectionError"),
         Returned(Envelope(TRUE, t, TRUE, <<>>)),
         Returned(Envelope(FALSE, <<>>, TRUE, <<Segment("output_text", Prose(5))>>)) }

Environment == {JNull, JStr(<<>>), JStr(S_sk_test)}

\* ------------------------------------------------------------ state

VARIABLES
    env,          \* os.environ's OPENAI_API_KEY: None when unset
    pydantic_v1,  \* the installed pydantic is version 1
    pc,           \* per request: where its handling stands
    endpoint,     \* per request: the handler it is routed to
    body,         \* per request: the request body
    req,          \* per request: the bound request model
    api_key,      \* per request: the handler's api_key
    user_msg,     \* per request: the handler's user_msg
    calls,        \* per request: the calls made to the completion boundary
    reply,        \* per request: what its call came to
    text,         \* per request: the handler's text
    data,         \* per request: the handler's data
    result        \* per request: the HTTP response

vars == <<env, pydantic_v1, pc, endpoint, body, req, api_key, user_msg, calls, reply,
          text, data, result>>

NoReq == [none |-> TRUE]

Init ==
    /\ env \in Environment
    /\ pydantic_v1 \in BOOLEAN
    /\ pc = [r \in Reqs |-> "Idle"]
    /\ endpoint = [r \in Reqs |-> "none"]
    /\ body = [r \in Reqs |-> NoReq]
    /\ req = [r \in Reqs |-> NoReq]
    /\ api_key = [r \in Reqs |-> JNull]
    /\ user_msg = [r \in Reqs |-> <<>>]
    /\ calls = [r \in Reqs |-> 0]
    /\ reply = [r \in Reqs |-> NoReply]
    /\ text = [r \in Reqs |-> <<>>]
    /\ data = [r \in Reqs |-> Missing]
    /\ result = [r \in Reqs |-> NoResult]

\* ------------------------------------------------------------ actions

\* the framework binds the body and calls the handler
Receive(r, ep, b) ==
    /\ pc[r] = "Idle"
    /\ pc' = [pc EXCEPT ![r] = "Received"]
    /\ endpoint' = [endpoint EXCEPT ![r] = ep]
    /\ body' = [body EXCEPT ![r] = b]
    /\ req' = [req EXCEPT ![r] = Bind(ep, b)]
    /\ UNCHANGED <<env, pydantic_v1, api_key, user_msg, calls, reply, text, data, result>>

\* api_key = os.getenv(...); if not api_key: raise; the prompts; text = ""
Begin(r) ==
    /\ pc[r] = "Received"
    /\ api_key' = [api_key EXCEPT ![r] = env]
    /\ IF Falsy(env)
       THEN /\ pc' = [pc EXCEPT ![r] = "Failed"]
            /\ result' = [result EXCEPT ![r] = HTTPException(500, "OPENAI_API_KEY not set", <<>>)]
            /\ UNCHANGED <<user_msg, text>>
       ELSE /\ pc' = [pc EXCEPT ![r] = "Pending"]
            /\ user_msg' = [user_msg EXCEPT ![r] = user_msg_of(endpoint[r], req[r])]
            /\ text' = [text EXCEPT ![TextCell(r)] = <<>>]
            /\ UNCHANGED result
    /\ UNCHANGED <<env, pydantic_v1, endpoint, body, req, calls, reply, data>>

\* client.responses.create(...) goes out
Send(r) ==
    /\ pc[r] = "Pending"
    /\ calls[r] = 0
    /\ calls' = [calls EXCEPT ![r] = create_calls(calls[r])]
    /\ UNCHANGED <<env, pydantic_v1, pc, endpoint, body, req, api_key, user_msg, reply,
                   text, data, result>>

\* the call raises or returns r, and the text is taken from r
Return(r, out) ==
    /\ pc[r] = "Pending"
    /\ calls[r] > 0
    /\ reply' = [reply EXCEPT ![r] = out]
    /\ IF out.raised
       THEN /\ pc' = [pc EXCEPT ![r] = "Failed"]
            /\ result' = [result EXCEPT ![r] = HTTPException(500, out.msg, <<>>)]
            /\ UNCHANGED text
       ELSE LET e == ExtractText(out.r)
            IN IF e.ok
               THEN /\ pc' = [pc EXCEPT ![r] = "ParsingJSON"]
                    /\ text' = [text EXCEPT ![TextCell(r)] = e.text]
                    /\ UNCHANGED result
               ELSE /\ pc' = [pc EXCEPT ![r] = "Failed"]
                    /\ result' = [result EXCEPT ![r] = HTTPException(500, e.exc, <<>>)]
                    /\ UNCHANGED text
    /\ UNCHANGED <<env, pydantic_v1, endpoint, body, req, api_key, user_msg, calls, data>>

\* data = json.loads(text), or except json.JSONDecodeError
Parse(r) ==
    /\ pc[r] = "ParsingJSON"
    /\ LET p == loads(text[TextCell(r)])
       IN IF p.ok
          THEN /\ pc' = [pc EXCEPT ![r] = "Validating"]
               /\ data' = [data EXCEPT ![r] = p.val]
               /\ UNCHANGED result
          ELSE /\ pc' = [pc EXCEPT ![r] = "Failed"]
               /\ result' = [result EXCEPT ![r] =
                     HTTPException(500, "AI did not return valid JSON. Raw: ",
                                   Excerpt(text[TextCell(r)]))]
               /\ UNCHANGED data
    /\ UNCHANGED <<env, pydantic_v1, endpoint, body, req, api_key, user_msg, calls, reply, text>>

\* return Model(**data), or except Exception as e
Validate(r) ==
    /\ pc[r] = "Validating"
    /\ LET m == Construct(response_model(endpoint[r]), data[r], pydantic_v1)
       IN IF m.ok
          THEN /\ pc' = [pc EXCEPT ![r] = "Done"]
               /\ result' = [result EXCEPT ![r] = Response200(m.val)]
          ELSE /\ pc' = [pc EXCEPT ![r] = "Failed"]
               /\ result' = [result EXCEPT ![r] = HTTPException(500, m.exc, <<>>)]
    /\ UNCHANGED <<env, pydantic_v1, endpoint, body, req, api_key, user_msg, calls, reply,
                   text, data>>

\* one request, every input
Next ==
    \E r \in {1} :
        \/ \E ep \in Endpoints : \E b \in Bodies(ep) : Receive(r, ep, b)
        \/ Begin(r)
        \/ Send(r)
        \/ \E out \in Outcomes(endpoint[r]) : Return(r, out)
        \/ Parse(r)
        \/ Validate(r)

Spec == Init /\ [][Next]_vars

\* several requests in flight, their steps interleaved
NextConc ==
    \E r \in Reqs :
        \/ \E ep \in Endpoints : \E b \in SmallBodies(ep) : Receive(r, ep, b)
        \/ Begin(r)
        \/ Send(r)
        \/ \E out \in SmallOutcomes(endpoint[r]) : Return(r, out)
        \/ Parse(r)
        \/ Validate(r)

SpecConc == Init /\ [][NextConc]_vars
\* ------------------------------------------------------------ properties

Terminal(r) == pc[r] \in {"Done", "Failed"}

\* the handler of r holds a text taken from the reply
Extracted(r) ==
    \/ pc[r] \in {"ParsingJSON", "Validating", "Done"}
    \/ pc[r] = "Failed" /\ reply[r].msg = "" /\ ExtractText(reply[r].r).ok

\* json.loads gave the handler of r its data
Parsed(r) == data[r].t # "missing"

Absent(v) == v.t = "null" \/ (v.t = "str" /\ Len(v.s) = 0)

\* C1: a request handled while the credential is unset or empty ends with
\* HTTP 500 and has made no call to the completion boundary.
C1_NoCredentialNoCall ==
    \A r \in Reqs :
        (pc[r] \notin {"Idle", "Received"} /\ Absent(api_key[r]))
            => /\ pc[r] = "Failed"
               /\ result[r].status = 500
               /\ calls[r] = 0

C1_Witness ==
    \E r \in Reqs :
        /\ pc[r] = "Failed"
        /\ endpoint[r] = "recipes_by_ingredient"
        /\ api_key[r] = JStr(<<>>)
        /\ result[r] = HTTPException(500, "OPENAI_API_KEY not set", <<>>)
        /\ calls[r] = 0

\* -- the shapes of a parsed reply, read off the declared models

RECURSIVE MissingKey(_, _)
\* a required key is missing, at any depth
MissingKey(type, v) ==
    CASE type.kind = "model" /\ v.t = "obj" ->
            \E i \in 1..Len(type.names) :
                \/ ~HasKey(v, type.names[i])
                \/ HasKey(v, type.names[i]) /\ MissingKey(type.types[i], Get(v, type.names[i]))
      [] type.kind = "list" /\ v.t = "list" ->
            \E i \in 1..Len(v.a) : MissingKey(type.types[1], v.a[i])
      [] OTHER -> FALSE

RECURSIVE OutOfBound(_, _)
\* a number lies outside its field's inclusive bounds, at any depth
OutOfBound(type, v) ==
    CASE type.kind = "int" /\ v.t = "int" -> v.n < type.ge \/ v.n > type.le
      [] type.kind = "model" /\ v.t = "obj" ->
            \E i \in 1..Len(type.names) :
                HasKey(v, type.names[i]) /\ OutOfBound(type.types[i], Get(v, type.names[i]))
      [] type.kind = "list" /\ v.t = "list" ->
            \E i \in 1..Len(v.a) : OutOfBound(type.types[1], v.a[i])
      [] OTHER -> FALSE

JsonType(type) == CASE type.kind = "int" -> "int"
                    [] type.kind = "str" -> "str"
                    [] type.kind = "list" -> "list"
                    [] OTHER -> "obj"

RECURSIVE WrongType(_, _)
\* a value is of another JSON type than its field declares, at any depth
WrongType(type, v) ==
    \/ v.t # JsonType(type)
    \/ type.kind = "model" /\ v.t = "obj" /\
          \E i \in 1..Len(type.names) :
              HasKey(v, type.names[i]) /\ WrongType(type.types[i], Get(v, type.names[i]))
    \/ type.kind = "list" /\ v.t = "list" /\
          \E i \in 1..Len(v.a) : WrongType(type.types[1], v.a[i])

RECURSIVE Uncoercible(_, _)
\* a value of a type that no version of the validator takes for the declared
\* one: for an int null, an array, an object or a text that is no integer;
\* for a str null, an array or an object; for an array anything else; for an
\* object null, a string, a number or a boolean
Uncoercible(type, v) ==
    CASE type.kind = "int" ->
            v.t \in {"null", "list", "obj"} \/ (v.t = "str" /\ ~IsIntText(v.s))
      [] type.kind = "str" -> v.t \in {"null", "list", "obj"}
      [] type.kind = "list" ->
            \/ v.t # "list"
            \/ v.t = "list" /\ \E i \in 1..Len(v.a) : Uncoercible(type.types[1], v.a[i])
      [] OTHER ->
            \/ v.t \in {"null", "str", "int", "bool"}
            \/ v.t = "obj" /\
                  \E i \in 1..Len(type.names) :
                      HasKey(v, type.names[i])
                          /\ Uncoercible(type.types[i], Get(v, type.names[i]))

RECURSIVE OutOfBoundText(_, _)
\* the text of an integer outside the bounds of its int field, at any depth
OutOfBoundText(type, v) ==
    CASE type.kind = "int" /\ v.t = "str" ->
            IsIntText(v.s) /\ (IntOfText(v.s) < type.ge \/ IntOfText(v.s) > type.le)
      [] type.kind = "model" /\ v.t = "obj" ->
            \E i \in 1..Len(type.names) :
                HasKey(v, type.names[i]) /\ OutOfBoundText(type.types[i], Get(v, type.names[i]))
      [] type.kind = "list" /\ v.t = "list" ->
            \E i \in 1..Len(v.a) : OutOfBoundText(type.types[1], v.a[i])
      [] OTHER -> FALSE

\* C2 as stated: a parsed reply that is not of the declared shape (a required
\* key missing, a number out of bounds, a value of the wrong type, no object
\* at the top) ends with HTTP 500, never 200.
C2_Original ==
    \A r \in Reqs :
        (Terminal(r) /\ Parsed(r) /\
            (\/ data[r].t # "obj"
             \/ MissingKey(response_model(endpoint[r]), data[r])
             \/ OutOfBound(response_model(endpoint[r]), data[r])
             \/ WrongType(response_model(endpoint[r]), data[r])))
            => (pc[r] = "Failed" /\ result[r].status = 500)

\* C2 amended: a parsed reply ends with HTTP 500, never 200, when it is no
\* object, a required key is missing, a number (or the text of a number in an
\* int field) is out of bounds, or a value has a type the validator cannot
\* take for the declared one.
C2_ShapeViolationIs500 ==
    \A r \in Reqs :
        (Terminal(r) /\ Parsed(r) /\
            (\/ data[r].t # "obj"
             \/ MissingKey(response_model(endpoint[r]), data[r])
             \/ OutOfBound(response_model(endpoint[r]), data[r])
             \/ OutOfBoundText(response_model(endpoint[r]), data[r])
             \/ Uncoercible(response_model(endpoint[r]), data[r])))
            => (pc[r] = "Failed" /\ result[r].status = 500)

C2_Witness ==
    \E r \in Reqs :
        /\ pc[r] = "Failed"
        /\ endpoint[r] = "recommendations"
        /\ data[r] = DictSet(RecommendationValue, K_totalCalories, JInt(7000))
        /\ result[r] = HTTPException(500, "ValidationError", <<>>)

\* C3: a reply text that is no JSON (the empty text too) ends with HTTP 500,
\* and the raw excerpt of the detail is the first min(300, length) characters
\* of the text, in order, and nothing past them.
C3_MalformedExcerpt ==
    \A r \in Reqs :
        (Terminal(r) /\ Extracted(r) /\ ~loads(text[r]).ok)
            => /\ pc[r] = "Failed"
               /\ result[r].status = 500
               /\ result[r].detail.msg = "AI did not return valid JSON. Raw: "
               /\ Len(result[r].detail.raw) = Min(300, Len(text[r]))
               /\ \A i \in 1..Len(result[r].detail.raw) : result[r].detail.raw[i] = text[r][i]

C3_Witness ==
    \E r \in Reqs :
        /\ pc[r] = "Failed"
        /\ text[r] = Prose(310)
        /\ result[r].detail.raw = Prose(300)

RECURSIVE StrictShape(_, _)
\* v is of the declared shape: every key present, every value of the declared
\* JSON type, every number within its bounds
StrictShape(type, v) ==
    CASE type.kind = "int" -> v.t = "int" /\ type.ge <= v.n /\ v.n <= type.le
      [] type.kind = "str" -> v.t = "str"
      [] type.kind = "list" ->
            v.t = "list" /\ \A i \in 1..Len(v.a) : StrictShape(type.types[1], v.a[i])
      [] OTHER ->
            v.t = "obj" /\ \A i \in 1..Len(type.names) :
                HasKey(v, type.names[i]) /\ StrictShape(type.types[i], Get(v, type.names[i]))

RECURSIVE SameFields(_, _, _)
\* the response value b holds, field by field, the parsed value v
SameFields(type, b, v) ==
    CASE type.kind = "list" ->
            /\ b.t = "list"
            /\ Len(b.a) = Len(v.a)
            /\ \A i \in 1..Len(b.a) : SameFields(type.types[1], b.a[i], v.a[i])
      [] type.kind = "model" ->
            /\ b.t = "obj"
            /\ b.k = type.names
            /\ \A i \in 1..Len(type.names) :
                  SameFields(type.types[i], b.a[i], Get(v, type.names[i]))
      [] OTHER -> b = v

\* C4: with the credential present, a reply that parses as JSON and is of the
\* declared shape ends with HTTP 200 and a body whose every field is the
\* parsed value.
C4_ValidReplyReturnedAsIs ==
    \A r \in Reqs :
        (Terminal(r) /\ Parsed(r) /\ StrictShape(response_model(endpoint[r]), data[r]))
            => /\ pc[r] = "Done"
               /\ result[r].status = 200
               /\ SameFields(response_model(endpoint[r]), result[r].body, data[r])

C4_Witness ==
    \E r \in Reqs :
        /\ pc[r] = "Done"
        /\ endpoint[r] = "recommendations"
        /\ body[r].goal = JStr(S_lose_weight) /\ body[r].age = Missing
        /\ text[r] = RecommendationText
        /\ result[r].status = 200
        /\ result[r].body = RecommendationValue

Edges ==
    { <<"Idle", "Received">>, <<"Received", "Pending">>, <<"Received", "Failed">>,
      <<"Pending", "ParsingJSON">>, <<"Pending", "Failed">>,
      <<"ParsingJSON", "Validating">>, <<"ParsingJSON", "Failed">>,
      <<"Validating", "Done">>, <<"Validating", "Failed">> }

C5_Step(r) ==
    /\ pc'[r] # pc[r] => <<pc[r], pc'[r]>> \in Edges
    /\ Terminal(r) => (pc'[r] = pc[r] /\ result'[r] = result[r] /\ calls'[r] = calls[r])
    /\ (pc'[r] = "Failed" /\ pc[r] # "Failed")
          => (result'[r].status = 500 /\ result'[r].detail # NoDetail)
    /\ (pc'[r] = "Done" /\ pc[r] # "Done") => result'[r].status = 200
    /\ pc'[r] \notin {"Done", "Failed"} => result'[r] = NoResult
    /\ (pc'[r] \in {"Done", "Failed"} /\ ~Absent(api_key'[r])) => calls'[r] = 1
    /\ calls'[r] >= calls[r]

\* C5: a request moves only along Pending, ParsingJSON, Validating, Done, a
\* failure in any of the three goes straight to Failed (HTTP 500 with a
\* detail), Done and Failed are left by no step, and with the credential
\* present every terminal state has seen exactly one outbound call.
C5_Pipeline == [][\A r \in Reqs : C5_Step(r)]_vars

C5_Witness ==
    \E r \in Reqs :
        /\ pc[r] = "Failed"
        /\ reply[r] = Raised("APIConnectionError")
        /\ result[r] = HTTPException(500, "APIConnectionError", <<>>)
        /\ calls[r] = 1

\* C6: the recipes array of a reply of the declared shape is taken at any
\* length: HTTP 200, the same number of recipes in the same order.
C6_RecipeCountNotChecked ==
    \A r \in Reqs :
        (/\ endpoint[r] = "recipes_by_ingredient"
         /\ Terminal(r) /\ Parsed(r)
         /\ StrictShape(IngredientRecipeResponse, data[r]))
            => /\ pc[r] = "Done"
               /\ result[r].status = 200
               /\ Len(Get(result[r].body, K_recipes).a) = Len(Get(data[r], K_recipes).a)
               /\ \A i \in 1..Len(Get(data[r], K_recipes).a) :
                     Get(result[r].body, K_recipes).a[i] = Get(data[r], K_recipes).a[i]

C6_Witness ==
    \E r \in Reqs :
        /\ pc[r] = "Done"
        /\ endpoint[r] = "recipes_by_ingredient"
        /\ body[r].ingredient = JStr(S_chickpeas) /\ body[r].servings = Missing
        /\ data[r] = IngredientValue(S_chickpeas, 2)
        /\ result[r].status = 200
        /\ Len(Get(result[r].body, K_recipes).a) = 2

\* C7 as stated: the ingredient of every HTTP 200 response of
\* recipes_by_ingredient is the ingredient of the request.
C7_Original ==
    \A r \in Reqs :
        (endpoint[r] = "recipes_by_ingredient" /\ pc[r] = "Done")
            => Get(result[r].body, K_ingredient) = req[r].ingredient

\* C7 amended: the ingredient of every HTTP 200 response of
\* recipes_by_ingredient is the ingredient string of the model's reply; the
\* request's ingredient goes into the user prompt (twice) and nowhere else.
C7_IngredientIsTheReplys ==
    \A r \in Reqs :
        (endpoint[r] = "recipes_by_ingredient" /\ pc[r] = "Done")
            => /\ Get(data[r], K_ingredient).t = "str"
                  => Get(result[r].body, K_ingredient) = Get(data[r], K_ingredient)
               /\ user_msg[r][1].val = req[r].ingredient.s
               /\ user_msg[r][6].val = req[r].ingredient.s

C7_Witness ==
    \E r \in Reqs :
        /\ endpoint[r] = "recipes_by_ingredient" /\ pc[r] = "Done"
        /\ req[r].ingredient = JStr(S_chickpeas)
        /\ Get(result[r].body, K_ingredient) = JStr(S_tofu)

\* the user prompt of r is composed
Composed(r) == pc[r] \notin {"Idle", "Received"} /\ ~Absent(api_key[r])

\* the piece of the user prompt on the line of a field
Line(r, lit) == user_msg[r][CHOOSE i \in 1..Len(user_msg[r]) : user_msg[r][i].lit = lit]
HasLine(r, lit) == \E i \in 1..Len(user_msg[r]) : user_msg[r][i].lit = lit

NotSupplied(v) == v.t = "missing"

\* C8 as stated: every optional field the request does not supply is on its
\* own named line of the user prompt with the absent marker.
C8_Original ==
    \A r \in Reqs :
        Composed(r) =>
            IF endpoint[r] = "recommendations"
            THEN /\ NotSupplied(body[r].age) => HasLine(r, "\n- age: ") /\ Line(r, "\n- age: ").val = NoneText
                 /\ NotSupplied(body[r].gender) => HasLine(r, "\n- gender: ") /\ Line(r, "\n- gender: ").val = NoneText
                 /\ NotSupplied(body[r].height) => HasLine(r, "\n- height: ") /\ Line(r, "\n- height: ").val = NoneText
                 /\ NotSupplied(body[r].weight) => HasLine(r, "\n- weight: ") /\ Line(r, "\n- weight: ").val = NoneText
            ELSE /\ NotSupplied(body[r].goal) => HasLine(r, "\nConstraints:\n- goal: ") /\ Line(r, "\nConstraints:\n- goal: ").val = NoneText
                 /\ NotSupplied(body[r].dietType) => HasLine(r, "\n- dietType: ") /\ Line(r, "\n- dietType: ").val = NoneText
                 /\ NotSupplied(body[r].allergy) => HasLine(r, "\n- allergy: ") /\ Line(r, "\n- allergy: ").val = NoneText
                 /\ NotSupplied(body[r].servings) => HasLine(r, "\n- servings: ") /\ Line(r, "\n- servings: ").val = NoneText

\* C8 amended: two requests bound to the same fields get the same user prompt;
\* every optional field that is not supplied or is null is on its own named
\* line with the marker None, except servings, which when not supplied is
\* rendered as its default 1 (and as None only when given as null).
C8_PromptOfTheRequestOnly ==
    /\ \A r1, r2 \in Reqs :
          (Composed(r1) /\ Composed(r2) /\ endpoint[r1] = endpoint[r2] /\ req[r1] = req[r2])
              => user_msg[r1] = user_msg[r2]
    /\ \A r \in Reqs :
          Composed(r) =>
            IF endpoint[r] = "recommendations"
            THEN /\ Len(user_msg[r]) = 8
                 /\ body[r].age.t \in {"missing", "null"} => HasLine(r, "\n- age: ") /\ Line(r, "\n- age: ").val = NoneText
                 /\ body[r].gender.t \in {"missing", "null"} => HasLine(r, "\n- gender: ") /\ Line(r, "\n- gender: ").val = NoneText
                 /\ body[r].height.t \in {"missing", "null"} => HasLine(r, "\n- height: ") /\ Line(r, "\n- height: ").val = NoneText
                 /\ body[r].weight.t \in {"missing", "null"} => HasLine(r, "\n- weight: ") /\ Line(r, "\n- weight: ").val = NoneText
            ELSE /\ Len(user_msg[r]) = 7
                 /\ body[r].goal.t \in {"missing", "null"} => HasLine(r, "\nConstraints:\n- goal: ") /\ Line(r, "\nConstraints:\n- goal: ").val = NoneText
                 /\ body[r].dietType.t \in {"missing", "null"} => HasLine(r, "\n- dietType: ") /\ Line(r, "\n- dietType: ").val = NoneText
                 /\ body[r].allergy.t \in {"missing", "null"} => HasLine(r, "\n- allergy: ") /\ Line(r, "\n- allergy: ").val = NoneText
                 /\ body[r].servings.t = "missing" => HasLine(r, "\n- servings: ") /\ Line(r, "\n- servings: ").val = <<"1">>
                 /\ body[r].servings.t = "null" => HasLine(r, "\n- servings: ") /\ Line(r, "\n- servings: ").val = NoneText

C8_Witness ==
    \E r1, r2 \in Reqs :
        /\ r1 # r2
        /\ Composed(r1) /\ Composed(r2)
        /\ endpoint[r1] = "recipes_by_ingredient" /\ endpoint[r2] = "recipes_by_ingredient"
        /\ body[r1] = body[r2]
        /\ NotSupplied(body[r1].goal) /\ NotSupplied(body[r1].servings)
        /\ pc[r1] = "Done" /\ pc[r2] = "Pending"
        /\ user_msg[r1] = user_msg[r2]

\* the texts of the segments tagged output_text, in the envelope's order
OutputTexts(r) ==
    LET sel == SelectSeq(r.output, LAMBDA item : item.type = "output_text")
    IN Join([i \in 1..Len(sel) |-> sel[i].text], <<>>)

\* C9: the text is the envelope's aggregate text when that is there and not
\* empty, whatever the segments; otherwise it is the texts of the segments
\* tagged output_text, concatenated in order, every other segment skipped.
C9_PayloadExtraction ==
    \A r \in Reqs :
        (Extracted(r) /\ pc[r] # "Idle")
            => text[r] = IF reply[r].r.has_output_text /\ Len(reply[r].r.output_text) > 0
                         THEN reply[r].r.output_text
                         ELSE OutputTexts(reply[r].r)

C9_Witness ==
    \E r \in Reqs :
        /\ pc[r] = "Done"
        /\ ~reply[r].r.has_output_text
        /\ Len(reply[r].r.output) = 3
        /\ reply[r].r.output[2].type = "reasoning"
        /\ text[r] = reply[r].r.output[1].text \o reply[r].r.output[3].text

\* a request handled alone: its response from its own bound request, the
\* credential it read, and what its own call came to
HandleAlone(ep, key, out, v1) ==
    IF Absent(key) THEN HTTPException(500, "OPENAI_API_KEY not set", <<>>)
    ELSE IF out.raised THEN HTTPException(500, out.msg, <<>>)
    ELSE IF ~ExtractText(out.r).ok THEN HTTPException(500, ExtractText(out.r).exc, <<>>)
    ELSE LET t == ExtractText(out.r).text
         IN IF ~loads(t).ok
            THEN HTTPException(500, "AI did not return valid JSON. Raw: ", Excerpt(t))
            ELSE LET m == Construct(response_model(ep), loads(t).val, v1)
                 IN IF m.ok THEN Response200(m.val) ELSE HTTPException(500, m.exc, <<>>)

\* C10: however the steps of the requests in flight interleave, the response
\* of each is the one it gets when handled alone.
C10_RequestsIndependent ==
    \A r \in Reqs :
        Terminal(r) => result[r] = HandleAlone(endpoint[r], api_key[r], reply[r], pydantic_v1)

C10_Witness ==
    \E r1, r2 \in Reqs :
        /\ r1 # r2
        /\ pc[r1] = "Done" /\ result[r1].status = 200
        /\ pc[r2] = "Failed" /\ result[r2].detail.raw = Prose(5)
        /\ endpoint[r1] = endpoint[r2]
====
